---- MODULE Spec2Model ----
(***************************************************************************)
(* Model of median_degree.py: the rolling 60-second transaction graph and  *)
(* the median of its node degrees.  One action is one iteration of a read  *)
(* loop of main(): the line is read, parsed by edge_from_str, the graph is *)
(* updated and the output line is written.                                 *)
(*                                                                         *)
(* Usernames are modelled as the integers 1..NumIds (their order stands    *)
(* for the string order used by sorted()), 0 is the empty username.  Times *)
(* are seconds since an arbitrary epoch.  A formatted output line is       *)
(* modelled by its value in hundredths ("1.50\r\n" is 150).                *)
(***************************************************************************)
EXTENDS Integers, Sequences, FiniteSets, TLC

\* ------------------------------------------------------------------ bounds
NumIds == 3         \* distinct usernames in the input
MaxTick == 7        \* timestamps are 0, Tick, ..., MaxTick * Tick
Tick == 10          \* spacing of the sampled timestamps (seconds)
MaxLines == 3       \* lines in the input file
SampleMax == 30     \* sample medians per family given to the formatting

\* ------------------------------------------------------- program constants
time_window == 60   \* main(): time_window = 60

VARIABLES pc,             \* where main() is: "bootstrap" (step 3), "loop"
                           \* (step 4), "done" (after step 5), "aborted"
                           \* (an exception left main())
          nread, at_eof,   \* input_data: lines read, end of file reached
          extract,         \* what edge_from_str returned for the last line
          latest_time, edges, nodes, median_degree, med_degree_str,
          output,          \* the lines written to the output file
          events,          \* history: the edges found so far, in order
          evicted          \* history: the timestamp each evicted edge had
                           \* when it last left the table

vars == <<pc, nread, at_eof, extract, latest_time, edges, nodes,
          median_degree, med_degree_str, output, events, evicted>>

\* ------------------------------------------------------------------ values
Ids == 1..NumIds
Times == {Tick * k : k \in 0..MaxTick}

\* A name that main() has not bound yet.
NoTime == -1
NoStr == -1
EmptyMap == [k \in {} |-> 0]

\* Raw input lines.  "trans" lines match the regular expression (a matched
\* username may be empty, modelled by 0); "garbage" lines do not match.
\* EofLine is the '' that readline() returns at the end of the file.
TransLine(t, a, tm) ==
    [kind |-> "trans", target |-> t, actor |-> a, created_time |-> tm]
GarbageLine ==
    [kind |-> "garbage", target |-> 0, actor |-> 0, created_time |-> 0]
EofLine == [kind |-> "eof", target |-> 0, actor |-> 0, created_time |-> 0]
Lines == {GarbageLine, TransLine(0, 0, 0)} \cup
         {TransLine(0, a, 0) : a \in Ids} \cup
         {TransLine(t, 0, 0) : t \in Ids} \cup
         {TransLine(t, a, tm) : t \in Ids, a \in Ids, tm \in Times}

\* Rationals n/d with d in {1, 2}, kept in lowest terms.
Rat(n, d) == IF d = 2 /\ n % 2 = 0 THEN [num |-> n \div 2, den |-> 1]
             ELSE [num |-> n, den |-> d]

\* ------------------------------------------------------------ edge_from_str
\* What edge_from_str returns: [edge, time] with found = TRUE, or None.  (The
\* fields of a record are always written in the same order, the one of their
\* first use in the module.)
None == [found |-> FALSE, edge |-> <<0, 0>>, time |-> 0]

\* Mutant of sorted2: the usernames are kept in the order of the line.
sorted2_AsRead(x, y) == <<x, y>>

\* tuple(sorted([target, actor]))
sorted2(x, y) == IF x <= y THEN <<x, y>> ELSE <<y, x>>

edge_from_str(line_str) ==
    IF line_str.kind = "trans"
    THEN IF line_str.target # 0 /\ line_str.actor # 0
         THEN [found |-> TRUE,
               edge |-> sorted2(line_str.target, line_str.actor),
               time |-> line_str.created_time]
         ELSE None
    ELSE None

\* ------------------------------------------------------------------- median
\* Mutant of median: the upper of the two middle values instead of their mean.
median_Upper(data) ==
    LET n == Len(data)
        i == n \div 2
    IN Rat(data[i + 1], 1)

\* statistics.median: sort the data; the middle value of an odd number of
\* values, the mean of the two middle values of an even number.
RECURSIVE SortedValues(_)
SortedValues(f) ==
    IF DOMAIN f = {} THEN <<>>
    ELSE LET k == CHOOSE x \in DOMAIN f : \A y \in DOMAIN f : f[x] <= f[y]
         IN <<f[k]>> \o SortedValues([y \in DOMAIN f \ {k} |-> f[y]])

median(data) ==
    LET n == Len(data)
        i == n \div 2
    IN IF n % 2 = 1 THEN Rat(data[i + 1], 1)
       ELSE Rat(data[i] + data[i + 1], 2)

\* Mutant of Truncate2: the value is rounded to the nearest hundredth.
Truncate2_Round(q) == (q.num * 200 + q.den) \div (2 * q.den)

\* '%.2f' % (int(median_degree*100)/100): truncation to hundredths.
Truncate2(q) == (q.num * 100) \div q.den

\* ------------------------------------------------------------ dict helpers
\* d[k] = v
Put(d, k, v) == [x \in DOMAIN d \cup {k} |-> IF x = k THEN v ELSE d[x]]
\* d.pop(k)
Pop(d, k) == [x \in DOMAIN d \ {k} |-> d[x]]

\* "if node in nodes: nodes[node] += 1 / else: nodes[node] = 1"
AdmitNode(ns, node) ==
    IF node \in DOMAIN ns THEN [ns EXCEPT ![node] = @ + 1]
    ELSE Put(ns, node, 1)

\* "for node in edge": the first, then the second element of the tuple.
AdmitNodes(ns, edge) == AdmitNode(AdmitNode(ns, edge[1]), edge[2])

\* Mutant of AdmitEdge: the node loop runs for an edge already in the graph.
AdmitEdge_AlwaysCount(es, ns, edge, time_obj) ==
    [edges |-> Put(es, edge, time_obj), nodes |-> AdmitNodes(ns, edge)]

\* Mutant of AdmitEdge: the edge is stamped with latest_time, not time_obj.
AdmitEdge_StaleStamp(es, ns, edge, time_obj) ==
    [edges |-> Put(es, edge, latest_time),
     nodes |-> IF edge \in DOMAIN es THEN ns ELSE AdmitNodes(ns, edge)]

\* "edges[edge] = time_obj" and, for an edge not yet in the graph, the node
\* loop (the body shared by Case A and by Case B's new-edge branch).
AdmitEdge(es, ns, edge, time_obj) ==
    [edges |-> Put(es, edge, time_obj),
     nodes |-> IF edge \in DOMAIN es THEN ns ELSE AdmitNodes(ns, edge)]

\* "if nodes[node] == 1: nodes.pop(node) / else: nodes[node] -= 1" on a
\* sweep state [edges, nodes, ok]; nodes[node] of a missing key raises
\* KeyError, which ends the sweep (ok = FALSE) with the state as it is.
EvictNode(st, node) ==
    IF ~st.ok THEN st
    ELSE IF node \notin DOMAIN st.nodes THEN [st EXCEPT !.ok = FALSE]
    ELSE IF st.nodes[node] = 1 THEN [st EXCEPT !.nodes = Pop(st.nodes, node)]
    ELSE [st EXCEPT !.nodes = [st.nodes EXCEPT ![node] = @ - 1]]

\* Mutant of EvictEdge: the edge stays in the edge table.
EvictEdge_KeepsEdge(st, edge) == EvictNode(EvictNode(st, edge[1]), edge[2])

\* "edges.pop(edge)", then the node loop of one evicted edge.
EvictEdge(st, edge) ==
    EvictNode(EvictNode([st EXCEPT !.edges = Pop(st.edges, edge)], edge[1]),
              edge[2])

\* "for edge in evict_edges", in the order of the list.
RECURSIVE EvictAll(_, _)
EvictAll(evict_edges, st) ==
    IF evict_edges = <<>> \/ ~st.ok THEN st
    ELSE EvictAll(Tail(evict_edges), EvictEdge(st, Head(evict_edges)))

\* The orders in which a dict can yield the keys in S (the iteration order
\* of a dict depends on the interpreter, so every order is allowed).
RECURSIVE Orders(_)
Orders(S) ==
    IF S = {} THEN {<<>>}
    ELSE UNION {{<<x>> \o o : o \in Orders(S \ {x})} : x \in S}

\* Mutant of EvictSet: the window is subtracted twice.
EvictSet_Never(es, end_time) ==
    {e \in DOMAIN es : es[e] <= end_time - time_window}

\* Mutant of EvictSet: an edge exactly at the end of the window is kept.
EvictSet_Strict(es, end_time) == {e \in DOMAIN es : es[e] < end_time}

\* Mutant of EvictSet: the window is added to end_time, not subtracted.
EvictSet_Added(es, end_time) ==
    {e \in DOMAIN es : es[e] <= end_time + 2 * time_window}

\* "[edge for edge in edges if edges[edge] <= end_time]", as a set.
EvictSet(es, end_time) == {e \in DOMAIN es : es[e] <= end_time}

\* --------------------------------------------------------------------- main
\* "if (time_dif >= 0.0)": Case A.
LaterOrSame(time_dif) == time_dif >= 0

\* "if time_dif > 0.0": the time window changes.
WindowChanges(time_dif) == time_dif > 0

\* Mutant of WithinWindow: a line exactly 60 s behind is still Case B.
WithinWindow_Inclusive(time_dif) == time_dif >= -60

\* Mutant of MoreRecent: Case B overwrites the timestamp of a present edge
\* whatever it is.
MoreRecent_Always(stored, time_obj) == TRUE

\* "if edges[edge] < time_obj": the line is more recent than the edge.
MoreRecent(stored, time_obj) == stored < time_obj

\* "elif (time_dif > -60)": Case B.
WithinWindow(time_dif) == time_dif > -60

Init ==
    /\ pc = "bootstrap"
    /\ nread = 0
    /\ at_eof = FALSE
    /\ extract = None
    /\ latest_time = NoTime
    /\ edges = EmptyMap
    /\ nodes = EmptyMap
    /\ median_degree = Rat(0, 1)
    /\ med_degree_str = NoStr
    /\ output = <<>>
    /\ events = <<>>
    /\ evicted = EmptyMap

\* The input file still has a line to give.
MoreInput == ~at_eof /\ nread < MaxLines

\* 3) a line before the first edge that holds no edge: read the next one.
BootstrapSkip(l) ==
    /\ pc = "bootstrap"
    /\ MoreInput
    /\ ~edge_from_str(l).found
    /\ extract' = edge_from_str(l)
    /\ nread' = nread + 1
    /\ UNCHANGED <<pc, at_eof, latest_time, edges, nodes, median_degree,
                   med_degree_str, output, events, evicted>>

\* 3) readline() at the end of the file returns '', in which no edge is
\* found, so "while median_degree == 0" goes round again.
BootstrapEof ==
    /\ pc = "bootstrap"
    /\ at_eof' = TRUE
    /\ extract' = edge_from_str(EofLine)
    /\ UNCHANGED <<pc, nread, latest_time, edges, nodes, median_degree,
                   med_degree_str, output, events, evicted>>

\* Mutant of FirstNodes: the nodes of the first edge are counted by the node
\* loop of Case A.
FirstNodes_Counted(edge) == AdmitNodes(EmptyMap, edge)

\* nodes = {edge[0]: 1, edge[1]: 1}: a dict display, the second key
\* overwrites the first when the two usernames are the same.
FirstNodes(edge) == Put(Put(EmptyMap, edge[1], 1), edge[2], 1)

\* 3) the first edge.
Bootstrap(l) ==
    \E ex \in {edge_from_str(l)} :
       /\ pc = "bootstrap"
       /\ MoreInput
       /\ ex.found
       /\ extract' = ex
       /\ events' = Append(events, ex)
       /\ nread' = nread + 1
       /\ latest_time' = ex.time
       /\ edges' = Put(EmptyMap, ex.edge, ex.time)
       /\ nodes' = FirstNodes(ex.edge)
       /\ median_degree' = Rat(1, 1)
       /\ med_degree_str' = Truncate2(median_degree')
       /\ output' = Append(output, med_degree_str')
       /\ pc' = "loop"
       /\ UNCHANGED <<at_eof, evicted>>

\* Mutant of Skip: the last median is written for a line that holds no edge.
Skip_Rewrites(l) ==
    /\ pc = "loop"
    /\ nread < MaxLines
    /\ ~edge_from_str(l).found
    /\ extract' = edge_from_str(l)
    /\ nread' = nread + 1
    /\ output' = Append(output, med_degree_str)
    /\ UNCHANGED <<pc, at_eof, latest_time, edges, nodes, median_degree,
                   med_degree_str, events, evicted>>

\* 4) a line that holds no edge: no update, no output.
Skip(l) ==
    /\ pc = "loop"
    /\ nread < MaxLines
    /\ ~edge_from_str(l).found
    /\ extract' = edge_from_str(l)
    /\ nread' = nread + 1
    /\ UNCHANGED <<pc, at_eof, latest_time, edges, nodes, median_degree,
                   med_degree_str, output, events, evicted>>

\* The end of Case A, from the sweep state st: the median of the updated
\* nodes is written.  A KeyError in the sweep, or the StatisticsError that
\* median() raises for no data, leaves main() with the state as it is.
CaseAEnd(st, new_latest) ==
    IF ~st.ok \/ DOMAIN st.nodes = {}
    THEN [pc |-> "aborted", latest_time |-> new_latest,
          edges |-> st.edges, nodes |-> st.nodes,
          median_degree |-> median_degree,
          med_degree_str |-> med_degree_str, output |-> output]
    ELSE LET med == median(SortedValues(st.nodes))
         IN [pc |-> "loop", latest_time |-> new_latest,
             edges |-> st.edges, nodes |-> st.nodes,
             median_degree |-> med,
             med_degree_str |-> Truncate2(med),
             output |-> Append(output, Truncate2(med))]

\* Mutant of CaseAResults: latest_time is set to the end of the new window.
CaseAResults_ClockToEnd(edge, time_obj) ==
    LET time_dif == time_obj - latest_time
        adm == AdmitEdge(edges, nodes, edge, time_obj)
        st0 == [edges |-> adm.edges, nodes |-> adm.nodes, ok |-> TRUE]
        end_time == time_obj - time_window
    IN IF WindowChanges(time_dif)
       THEN {CaseAEnd(EvictAll(evict_edges, st0), end_time) :
                evict_edges \in Orders(EvictSet(adm.edges, end_time))}
       ELSE {CaseAEnd(st0, latest_time)}

\* The states Case A can leave: the edge is admitted or refreshed and, if
\* the line is later than latest_time, the edges at or before the end of
\* the new window are evicted, in any order of the list evict_edges.
CaseAResults(edge, time_obj) ==
    LET time_dif == time_obj - latest_time
        adm == AdmitEdge(edges, nodes, edge, time_obj)
        st0 == [edges |-> adm.edges, nodes |-> adm.nodes, ok |-> TRUE]
        end_time == time_obj - time_window
    IN IF WindowChanges(time_dif)
       THEN {CaseAEnd(EvictAll(evict_edges, st0), time_obj) :
                evict_edges \in Orders(EvictSet(adm.edges, end_time))}
       ELSE {CaseAEnd(st0, latest_time)}

\* History: evicted, with the edges that are in the table es and not in the
\* table new_es, each with the timestamp it has in es.
Leavers(es, new_es) ==
    [e \in DOMAIN evicted \cup (DOMAIN es \ DOMAIN new_es) |->
        IF e \in DOMAIN es \ DOMAIN new_es THEN es[e] ELSE evicted[e]]

\* Case A) the new line is later than or the same as latest_time.
CaseA(l) ==
    \E ex \in {edge_from_str(l)} :
       /\ pc = "loop"
       /\ nread < MaxLines
       /\ ex.found
       /\ LaterOrSame(ex.time - latest_time)
       /\ extract' = ex
       /\ events' = Append(events, ex)
       /\ nread' = nread + 1
       /\ \E r \in CaseAResults(ex.edge, ex.time) :
               /\ pc' = r.pc
               /\ latest_time' = r.latest_time
               /\ edges' = r.edges
               /\ nodes' = r.nodes
               /\ median_degree' = r.median_degree
               /\ med_degree_str' = r.med_degree_str
               /\ output' = r.output
               /\ evicted' = Leavers(edges, r.edges)
       /\ UNCHANGED at_eof

\* Case B) the new line falls within the current window.
CaseB(l) ==
    \E ex \in {edge_from_str(l)} :
       /\ pc = "loop"
       /\ nread < MaxLines
       /\ ex.found
       /\ ~LaterOrSame(ex.time - latest_time)
       /\ WithinWindow(ex.time - latest_time)
       /\ extract' = ex
       /\ events' = Append(events, ex)
       /\ nread' = nread + 1
       /\ IF ex.edge \in DOMAIN edges
          THEN /\ edges' = IF MoreRecent(edges[ex.edge], ex.time)
                           THEN Put(edges, ex.edge, ex.time) ELSE edges
               /\ UNCHANGED <<nodes, median_degree>>
          ELSE \E adm \in {AdmitEdge(edges, nodes, ex.edge, ex.time)} :
               /\ edges' = adm.edges
               /\ nodes' = adm.nodes
               /\ median_degree' = median(SortedValues(adm.nodes))
       /\ med_degree_str' = Truncate2(median_degree')
       /\ output' = Append(output, med_degree_str')
       /\ UNCHANGED <<pc, at_eof, latest_time, evicted>>

\* Case C) the new line is earlier than the current window.
CaseC(l) ==
    \E ex \in {edge_from_str(l)} :
       /\ pc = "loop"
       /\ nread < MaxLines
       /\ ex.found
       /\ ~LaterOrSame(ex.time - latest_time)
       /\ ~WithinWindow(ex.time - latest_time)
       /\ extract' = ex
       /\ events' = Append(events, ex)
       /\ nread' = nread + 1
       /\ output' = Append(output, med_degree_str)
       /\ UNCHANGED <<pc, at_eof, latest_time, edges, nodes,
                      median_degree, med_degree_str, evicted>>

\* 5) the input file is exhausted: close the files.
Close ==
    /\ pc = "loop"
    /\ pc' = "done"
    /\ at_eof' = TRUE
    /\ UNCHANGED <<nread, extract, latest_time, edges, nodes, median_degree,
                   med_degree_str, output, events, evicted>>

Next ==
    \/ \E l \in Lines : BootstrapSkip(l)
    \/ BootstrapEof
    \/ \E l \in Lines : Bootstrap(l)
    \/ \E l \in Lines : Skip(l)
    \/ \E l \in Lines : CaseA(l)
    \/ \E l \in Lines : CaseB(l)
    \/ \E l \in Lines : CaseC(l)
    \/ Close

Spec == Init /\ [][Next]_vars

\* The interpreter always runs the next iteration.
FairSpec == Spec /\ WF_vars(Next)

\* ------------------------------------------------- the formatting by itself
\* Values of median_degree given to the formatting expression of lines 145
\* and 196 by itself: the halves k/2, which are the values statistics.median
\* returns for integer degrees, and the millionths around 3.5, which no
\* graph produces.  On each of them the float expression
\* '%.2f' % (int(m*100)/100) and the exact arithmetic of Truncate2 agree.
SampleMedians ==
    {[num |-> k, den |-> 2] : k \in 0..SampleMax} \cup
    {[num |-> 3500000 - j, den |-> 1000000] : j \in 0..SampleMax} \cup
    {[num |-> 3500000 + j, den |-> 1000000] : j \in 0..SampleMax}

FormatInit ==
    /\ pc = "format"
    /\ nread = 0
    /\ at_eof = FALSE
    /\ extract = None
    /\ latest_time = NoTime
    /\ edges = EmptyMap
    /\ nodes = EmptyMap
    /\ median_degree \in SampleMedians
    /\ med_degree_str = NoStr
    /\ output = <<>>
    /\ events = <<>>
    /\ evicted = EmptyMap

\* med_degree_str = '%.2f' % (int(median_degree*100)/100), then the write.
Format ==
    /\ pc = "format"
    /\ pc' = "formatted"
    /\ med_degree_str' = Truncate2(median_degree)
    /\ output' = Append(output, med_degree_str')
    /\ UNCHANGED <<nread, at_eof, extract, latest_time, edges, nodes,
                   median_degree, events, evicted>>

\* The program, and beside it the formatting applied to the sample medians.
EmitSpec == (Init \/ FormatInit) /\ [][Next \/ Format]_vars

\* ------------------------------------------------------------------ claims
\* A read loop is between two lines: bootstrap has happened and no exception
\* has left main().
Settled == pc \in {"loop", "done"}

\* The step has handed an edge to step 3 or 4 of main().
EventStep == events' # events

Some(edge, time_obj) == [found |-> TRUE, edge |-> edge, time |-> time_obj]

\* The events (A,B)@t0, (B,C)@t0+10s, (A,C)@t0+70s, with A, B, C = 1, 2, 3.
Scenario(t0) ==
    <<Some(<<1, 2>>, t0), Some(<<2, 3>>, t0 + 10), Some(<<1, 3>>, t0 + 70)>>

\* The first n elements of a sequence.
Prefix(seq, n) == SubSeq(seq, 1, n)

\* C1 (as stated): the three events of the scenario, processed from an empty
\* engine, emit exactly the lines 1.00, 1.50, 1.00.
C1_Original ==
    \A t0 \in Times :
        events = Scenario(t0) => output = <<100, 150, 100>>

\* C1 (amended): the three events of the scenario, processed from an empty
\* engine, emit exactly the lines 1.00, 1.00, 1.00: after the second event
\* the degrees are 1, 2, 1, whose median is 1.
C1_EndToEnd ==
    \A t0 \in Times : \A n \in 1..3 :
        events = Prefix(Scenario(t0), n)
            => output = Prefix(<<100, 100, 100>>, n)

C1_Witness ==
    \E t0 \in Times :
        /\ events = Scenario(t0)
        /\ pc = "loop"
        /\ DOMAIN edges = {<<1, 3>>}
        /\ Len(output) = 3

\* The number of distinct edges of the edge table that contain node n.
Incident(n) == Cardinality({e \in DOMAIN edges : e[1] = n \/ e[2] = n})

\* C2: after bootstrap and after every processed event, every node of the
\* node table has a degree equal to the number of distinct edges of the edge
\* table that contain it (the two usernames of an event may be the same).
C2_DegreeConsistency ==
    Settled => \A n \in DOMAIN nodes : nodes[n] = Incident(n)

\* C3: after every processed event every edge of the edge table was last
\* seen later than latest_time - 60 s; an edge leaves the table only in a
\* step that advances latest_time and only if it was last seen at or before
\* the new latest_time - 60 s; an edge last seen exactly 60 s before the new
\* latest_time leaves the table.
C3_InWindow ==
    Settled => \A e \in DOMAIN edges : edges[e] > latest_time - 60

C3_Evictions ==
    /\ \A e \in DOMAIN edges \ DOMAIN edges' :
          /\ latest_time' > latest_time
          /\ e # extract'.edge
          /\ edges[e] <= latest_time' - 60
    /\ (pc = "loop" /\ pc' = "loop" /\ latest_time' > latest_time)
          => \A e \in DOMAIN edges :
                (e # extract'.edge /\ edges[e] = latest_time' - 60)
                    => e \notin DOMAIN edges'

\* C3: both parts, the state invariant and the condition on every step.
C3_WindowCorrectness == [](C3_InWindow) /\ [][C3_Evictions]_vars

\* An edge last seen exactly 60 s before latest_time has been evicted.
C3_Witness ==
    /\ pc = "loop"
    /\ Len(events) = 2
    /\ events[1].time = latest_time - 60
    /\ events[1].edge \notin DOMAIN edges

\* The k-th smallest of the degrees in ns, by rank.
Kth(ns, k) ==
    CHOOSE v \in {ns[x] : x \in DOMAIN ns} :
        /\ Cardinality({x \in DOMAIN ns : ns[x] < v}) < k
        /\ k <= Cardinality({x \in DOMAIN ns : ns[x] <= v})

\* Twice the standard median of the degrees in ns: the middle value twice
\* for an odd number of nodes, the sum of the two middle values for an even
\* number.
TwiceMedian(ns) ==
    LET n == Cardinality(DOMAIN ns)
    IN Kth(ns, (n + 1) \div 2) + Kth(ns, (n \div 2) + 1)

\* C4: every emitted value (Case A, Case B with a new or an existing edge,
\* Case C) is the standard median of the degrees in the node table at the
\* moment of emission.
C4_MedianAtEmission ==
    [][Len(output') > Len(output)
          => 2 * output'[Len(output')] = 100 * TwiceMedian(nodes')]_vars

\* Case C has repeated a median of 1.50 (two nodes, of degrees 1 and 2).
C4_Witness ==
    /\ pc = "loop"
    /\ Len(output) = 3
    /\ output[3] = 150
    /\ extract.time <= latest_time - 60
    /\ Cardinality(DOMAIN nodes) = 2

\* C5: the number of output lines emitted so far equals the number of lines
\* so far for which edge_from_str returned an edge: each of them produces
\* exactly one output line, a line without an edge produces none.
C5_OutputContract == Len(output) = Len(events)

\* C6: for every finite input file, with or without a line that holds an
\* edge, the run terminates.
C6_Termination == <>(pc \in {"done", "aborted"})

\* C7: an event with T - latest_time <= -60 s leaves the edge table, the node
\* table and latest_time unchanged, and the line emitted for it is the line
\* emitted just before it.
C7_OutOfWindowNoOp ==
    [][(pc = "loop" /\ EventStep /\ extract'.time - latest_time <= -60)
          => /\ edges' = edges
             /\ nodes' = nodes
             /\ latest_time' = latest_time
             /\ output' = Append(output, output[Len(output)])]_vars

\* The last line read held an edge stamped exactly 60 s before latest_time.
C7_Witness ==
    /\ pc = "loop"
    /\ extract.found
    /\ extract.time = latest_time - 60
    /\ Len(output) = Len(events)
    /\ Len(output) >= 2

\* C8: an event whose edge is in the edge table, with a timestamp inside the
\* current window and not after the edge's stored timestamp, leaves every
\* degree, the set of nodes, the set of edges and the emitted median
\* unchanged.
C8_IdempotentRefresh ==
    [][(/\ pc = "loop"
        /\ EventStep
        /\ extract'.edge \in DOMAIN edges
        /\ extract'.time > latest_time - 60
        /\ extract'.time <= latest_time
        /\ extract'.time <= edges[extract'.edge])
          => /\ nodes' = nodes
             /\ DOMAIN edges' = DOMAIN edges
             /\ median_degree' = median_degree
             /\ Len(output') = Len(output) + 1
             /\ output'[Len(output')] = output[Len(output)]]_vars

\* The last line replayed an edge of the table with an older timestamp
\* inside the window.
C8_Witness ==
    /\ pc = "loop"
    /\ extract.found
    /\ extract = events[Len(events)]
    /\ extract.edge \in DOMAIN edges
    /\ extract.time > latest_time - 60
    /\ extract.time < edges[extract.edge]

\* C9: latest_time never decreases; once set by bootstrap it changes only in
\* a step whose event has a timestamp greater than latest_time, and then it
\* becomes that timestamp.
C9_MonotonicClock ==
    [][/\ pc # "bootstrap" => latest_time' >= latest_time
       /\ latest_time' # latest_time
             => /\ EventStep
                /\ pc # "bootstrap" => extract'.time > latest_time
                /\ latest_time' = extract'.time]_vars

\* latest_time has advanced past the first event and a late event has since
\* been processed without moving it.
C9_Witness ==
    /\ pc = "loop"
    /\ Len(events) = 3
    /\ events[2].time > events[1].time
    /\ events[3].time < events[2].time
    /\ latest_time = events[2].time

\* C10: after bootstrap and after every processed event, latest_time is the
\* maximum of the timestamps stored in the edge table.
C10_ClockIsMaxStamp ==
    Settled => /\ \A e \in DOMAIN edges : edges[e] <= latest_time
               /\ \E e \in DOMAIN edges : edges[e] = latest_time

\* Two edges are in the table after latest_time has advanced, the older one
\* admitted late.
C10_Witness ==
    /\ pc = "loop"
    /\ Len(events) = 3
    /\ Cardinality(DOMAIN edges) = 3
    /\ latest_time > events[1].time
    /\ events[3].time < latest_time

\* The usernames that are an endpoint of an edge of the edge table.
Endpoints == {e[1] : e \in DOMAIN edges} \cup {e[2] : e \in DOMAIN edges}

\* C11: after bootstrap and after every processed event, the keys of the
\* node table are exactly the endpoints of the edges of the edge table, and
\* every degree of the node table is at least 1.
C11_NodePresence ==
    Settled => /\ DOMAIN nodes = Endpoints
               /\ \A n \in DOMAIN nodes : nodes[n] >= 1

\* The step has read a line of the input file, or the empty string that
\* readline() returns at its end.
LineStep == nread' # nread \/ (pc = "bootstrap" /\ at_eof' # at_eof)

\* C12: a step that reads a line in which edge_from_str finds no edge,
\* before or after bootstrap, leaves the edge table, the node table,
\* latest_time and the last median unchanged and writes nothing.
C12_UnparseableInert ==
    [][(LineStep /\ ~extract'.found)
           => UNCHANGED <<edges, nodes, latest_time, median_degree,
                          med_degree_str, output, events, evicted>>]_vars

\* Two of the three lines read held no edge, the last of them read after
\* bootstrap; one line has been written.
C12_Witness ==
    /\ pc = "loop"
    /\ nread = 3
    /\ Len(events) = 1
    /\ events[1].edge # extract.edge
    /\ ~extract.found
    /\ output = <<100>>

\* c is the greatest integer that is at most 100 * q.
IsFloor100(c, q) == c * q.den <= 100 * q.num /\ 100 * q.num < (c + 1) * q.den

\* C13: every value written is the median truncated to hundredths, that is
\* floor(100 * median) / 100, never rounded: 3.0 is written 3.00, 3.5 is
\* written 3.50 and 3.499999 is written 3.49.
C13_Emitted ==
    output' # output => IsFloor100(output'[Len(output')], median_degree')

C13_Examples ==
    pc = "formatted" =>
        /\ median_degree = [num |-> 6, den |-> 2] => output = <<300>>
        /\ median_degree = [num |-> 7, den |-> 2] => output = <<350>>
        /\ median_degree = [num |-> 3499999, den |-> 1000000]
               => output = <<349>>

C13_Truncation == [](C13_Examples) /\ [][C13_Emitted]_vars

\* 3.499999 has been formatted and written as 3.49.
C13_Witness ==
    /\ pc = "formatted"
    /\ median_degree = [num |-> 3499999, den |-> 1000000]
    /\ med_degree_str = 349
    /\ output = <<349>>

\* The edges k and e join the same two usernames.
SameEnds(k, e) == {k[1], k[2]} = {e[1], e[2]}

\* C14: an event (X,Y) and an event (Y,X) address the same key of the edge
\* table, so no two keys of the table join the same two usernames; an event
\* whose timestamp is in the current window (later than latest_time - 60 s
\* and not later than latest_time) and whose usernames are joined by an edge
\* of the table, in either order, adds no edge and changes no degree; when
\* such an event advances latest_time it adds no edge and raises no degree.
C14_OneKey ==
    \A k \in DOMAIN edges : \A e \in DOMAIN edges : SameEnds(k, e) => k = e

C14_Duplicate ==
    (/\ pc = "loop"
     /\ EventStep
     /\ extract'.time > latest_time - 60
     /\ \E k \in DOMAIN edges : SameEnds(k, extract'.edge))
        => /\ DOMAIN edges' \subseteq DOMAIN edges
           /\ \A n \in DOMAIN nodes' :
                  n \in DOMAIN nodes /\ nodes'[n] <= nodes[n]
           /\ extract'.time <= latest_time
                  => nodes' = nodes /\ DOMAIN edges' = DOMAIN edges

C14_Undirected == [](C14_OneKey) /\ [][C14_Duplicate]_vars

\* The same two different usernames came twice within the window: one edge,
\* two nodes of degree 1.
C14_Witness ==
    /\ pc = "loop"
    /\ Len(events) = 2
    /\ events[1].edge = events[2].edge
    /\ events[1].edge[1] # events[1].edge[2]
    /\ events[2].time <= events[1].time
    /\ events[2].time > events[1].time - 60
    /\ DOMAIN edges = {events[1].edge}
    /\ \A n \in DOMAIN nodes : nodes[n] = 1
    /\ Cardinality(DOMAIN nodes) = 2

\* The step has processed an event that is late by less than 60 s.
LateStep ==
    /\ pc = "loop"
    /\ EventStep
    /\ extract'.time - latest_time < 0
    /\ extract'.time - latest_time > -60

\* What every late arrival leaves alone: latest_time, the edges of the table
\* and the degrees of the nodes, none of which is removed or lowered.
C15_Frame ==
    /\ latest_time' = latest_time
    /\ DOMAIN edges \subseteq DOMAIN edges'
    /\ \A n \in DOMAIN nodes : n \in DOMAIN nodes' /\ nodes'[n] >= nodes[n]
    /\ Len(output') = Len(output) + 1

\* A late arrival whose edge is not in the table.
C15_Absent ==
    /\ edges' = Put(edges, extract'.edge, extract'.time)
    /\ DOMAIN nodes' = DOMAIN nodes \cup {extract'.edge[1], extract'.edge[2]}
    /\ \A n \in DOMAIN nodes' :
          nodes'[n] = IF n \in {extract'.edge[1], extract'.edge[2]}
                      THEN IF n \in DOMAIN nodes THEN nodes[n] + 1 ELSE 1
                      ELSE nodes[n]
    /\ 2 * output'[Len(output')] = 100 * TwiceMedian(nodes')

\* A late arrival whose edge is in the table.
C15_Present ==
    /\ nodes' = nodes
    /\ DOMAIN edges' = DOMAIN edges
    /\ \A k \in DOMAIN edges : k # extract'.edge => edges'[k] = edges[k]
    /\ output'[Len(output')] = output[Len(output)]

\* C15: an event with -60 s < T - latest_time < 0 never changes latest_time,
\* never removes an edge and never lowers or removes a node; if its edge is
\* absent it is added with timestamp T, each of its endpoints gets degree 1
\* if it is new and one more otherwise, and the median of the new degrees is
\* written; if its edge is present only its stored timestamp may change and
\* the line written equals the line before it.
C15_LateArrival ==
    [][LateStep => /\ C15_Frame
                   /\ IF extract'.edge \in DOMAIN edges
                      THEN C15_Present ELSE C15_Absent]_vars

\* Before the first edge there is no graph, no clock and no output.
C16_Before ==
    Len(events) = 0 => /\ edges = EmptyMap
                       /\ nodes = EmptyMap
                       /\ latest_time = NoTime
                       /\ med_degree_str = NoStr
                       /\ output = <<>>

\* What bootstrap does with the first edge, but for the nodes.
C16_First ==
    /\ latest_time = events[1].time
    /\ DOMAIN edges = {events[1].edge}
    /\ edges[events[1].edge] = events[1].time
    /\ \A n \in DOMAIN nodes : nodes[n] = 1
    /\ output = <<100>>

\* C16 (as stated): after the first parsed event, latest_time is its
\* timestamp, the edge table holds exactly its edge with that timestamp,
\* there are exactly two nodes, each of degree 1, and one line 1.00 has been
\* written; before it there is no state and no output.
C16_Original ==
    /\ C16_Before
    /\ Len(events) = 1 => C16_First /\ Cardinality(DOMAIN nodes) = 2

\* C16 (amended): as stated, except that the nodes are the distinct
\* usernames of the first edge, each of degree 1: two nodes, or one node
\* when the two usernames are the same.
C16_Bootstrap ==
    /\ C16_Before
    /\ Len(events) = 1
          => /\ C16_First
             /\ DOMAIN nodes = {events[1].edge[1], events[1].edge[2]}

\* Bootstrap has taken a first edge with two different usernames after a
\* line without an edge.
C16_Witness ==
    /\ pc = "loop"
    /\ nread = 2
    /\ Len(events) = 1
    /\ extract = events[1]
    /\ Cardinality(DOMAIN nodes) = 2
    /\ output = <<100>>

\* C17: the timestamp stored for an edge never decreases from one state to
\* the next while the edge stays in the table, and an edge that enters the
\* table after it was evicted is stamped later than the timestamp it had
\* when it was evicted.
C17_Kept ==
    \A e \in DOMAIN edges \cap DOMAIN edges' : edges'[e] >= edges[e]

C17_Readmitted ==
    \A e \in (DOMAIN edges' \ DOMAIN edges) \cap DOMAIN evicted :
        edges'[e] > evicted[e]

C17_NoRegress == [][C17_Kept /\ C17_Readmitted]_vars

\* An evicted edge is back in the table, stamped later than it was when it
\* left.
C17_Witness ==
    /\ pc = "loop"
    /\ \E e \in DOMAIN evicted \cap DOMAIN edges : edges[e] > evicted[e]

\* C18: whenever the eviction sweep looks an endpoint of an evicted edge up
\* in the node table, the endpoint is a key of the table (the two usernames
\* of an event may be the same): in every step that advances latest_time,
\* the sweep ends without a failed lookup, whatever the order of the list
\* of edges to evict.
C18_EvictionLookups ==
    [][(/\ pc = "loop"
        /\ EventStep
        /\ WindowChanges(extract'.time - latest_time))
          => \E adm \in {AdmitEdge(edges, nodes, extract'.edge,
                                   extract'.time)} :
               \A evict_edges \in
                     Orders(EvictSet(adm.edges, extract'.time - time_window)) :
                  EvictAll(evict_edges,
                           [edges |-> adm.edges, nodes |-> adm.nodes,
                            ok |-> TRUE]).ok]_vars

\* The greatest element of a non-empty set of timestamps.
Latest(S) == CHOOSE t \in S : \A u \in S : u <= t

\* The reference graph of the events so far, whatever their order: M is
\* the greatest of their timestamps, an edge is last seen at the greatest
\* timestamp of its events, and the map holds the edges last seen later
\* than M - 60 s.
RefM == Latest({events[i].time : i \in 1..Len(events)})
RefLastSeen(k) ==
    Latest({events[i].time :
               i \in {j \in 1..Len(events) : events[j].edge = k}})
RefMap ==
    [k \in {e \in {events[i].edge : i \in 1..Len(events)} :
               RefLastSeen(e) > RefM - 60} |-> RefLastSeen(k)]

\* C19: after bootstrap and after every processed event, the edge table is
\* the reference map of the events processed so far and latest_time is their
\* greatest timestamp; neither depends on the order of the events.
C19_OrderIndependence ==
    Settled => edges = RefMap /\ latest_time = RefM

\* Three events out of order: the latest came second, the first edge has
\* left the window and the third event, late, is in the table.
C19_Witness ==
    /\ pc = "loop"
    /\ Len(events) = 3
    /\ events[2].time > events[3].time
    /\ events[3].time > events[1].time
    /\ DOMAIN edges = {events[2].edge, events[3].edge}
    /\ events[1].edge \notin DOMAIN edges
    /\ edges = RefMap

\* C20: in every state after the first parsed event the edge table and the
\* node table are not empty and a median has been written, so the median is
\* computed over at least one degree and the last median is never read before
\* it is set; the edge of an event that advances latest_time is in the table
\* after the sweep of that step.
C20_NonEmpty ==
    pc # "bootstrap" => /\ DOMAIN edges # {}
                        /\ DOMAIN nodes # {}
                        /\ med_degree_str # NoStr
                        /\ output # <<>>

C20_OwnEdgeKept ==
    (pc = "loop" /\ EventStep /\ latest_time' # latest_time)
        => /\ extract'.edge \in DOMAIN edges'
           /\ edges'[extract'.edge] = latest_time'

C20_NeverEmpty == [](C20_NonEmpty) /\ [][C20_OwnEdgeKept]_vars

\* An event 60 s or more after everything in the table has evicted every
\* other edge: its own edge alone is left.
C20_Witness ==
    /\ pc = "loop"
    /\ Len(events) = 3
    /\ events[3].time >= events[2].time + 60
    /\ events[2].time >= events[1].time
    /\ DOMAIN edges = {events[3].edge}
    /\ events[3].edge \notin {events[1].edge, events[2].edge}
    /\ DOMAIN nodes # {}

====
